---- MODULE Spec2Model ----
(***************************************************************************)
(* The import direction of kintone-customize-uploader (src/src/import.ts): *)
(* importCustomizeSetting fetches an app's customize configuration, writes *)
(* customize-manifest.json and downloads the uploaded files, with a retry  *)
(* handler around the fetch.                                               *)
(*                                                                         *)
(* The model follows the JavaScript run-to-completion rule: the promise    *)
(* reactions of importCustomizeSetting (pc in "call", "export",            *)
(* "download", "catch") run as microtasks, so the callbacks of fs.writeFile *)
(* and the settlement of downloadFile, which are I/O events, are taken only *)
(* when the chain is parked (pc in "fetching", "wait", "settled").         *)
(***************************************************************************)
EXTENDS Integers, Sequences, FiniteSets, TLC

VARIABLES
    pc,            \* position of the current invocation of importCustomizeSetting
    appId,         \* manifest.app
    status,        \* the status object created by runImport
    retryCount,    \* `let { retryCount } = status` of the current invocation
    attempt,       \* number of invocations of importCustomizeSetting so far
    e,             \* the exception bound by `catch (e)`
    fetched,       \* the value getAppCustomize resolved with, per attempt
    resp,          \* the value flowing through the .then chain
    result,        \* settlement of the promise given to the caller
    failures,      \* history: the failure of each failed attempt
    trace,         \* history: the calls made by the orchestrator, in order
    dirs,          \* file system: existing directories
    files,         \* file system: path -> content
    manifestWrites,\* fs.writeFile calls of exportAsManifestFile in flight
    downloads,     \* downloadFile promises in flight
    assetWrites,   \* fs.writeFile calls of downloadAndWriteFile in flight
    uncaught,      \* errors thrown from callbacks and unhandled rejections
    crashed,       \* the process died of an uncaught error
    runs           \* history: the files each earlier runImport left behind

vars == <<pc, appId, status, retryCount, attempt, e, fetched, resp, result,
          failures, trace, dirs, files, manifestWrites, downloads,
          assetWrites, uncaught, crashed, runs>>

(***************************************************************************)
(* Bounds of the model and program constants.                              *)
(***************************************************************************)
MaxEntries == 2          \* total number of entries in a remote configuration

MAX_RETRY_COUNT == 3     \* Constans.MAX_RETRY_COUNT

sep == "/"               \* path.sep

destDir == "dest"        \* options.destDir

AppIds == {"1", "7"}

Scopes == {"ALL", "ADMIN", "NONE"}

UploadedFile(k, n) == [type |-> "FILE", file |-> [fileKey |-> k, name |-> n]]

CDNFile(u) == [type |-> "URL", url |-> u]

CustomizeFile ==
    {UploadedFile("k1", "a.js"), UploadedFile("k2", "a.js"),
     CDNFile("https://cdn/x.js")}

ListLengths ==
    {l \in (0..MaxEntries) \X (0..MaxEntries) \X (0..MaxEntries) :
        l[1] + l[2] + l[3] <= MaxEntries}

\* the remote configurations with at most MaxEntries entries in all
RemoteConfigs ==
    UNION {
        {[scope |-> s, desktop |-> [js |-> dj, css |-> dc], mobile |-> [js |-> mj]] :
            s \in Scopes,
            dj \in [1..l[1] -> CustomizeFile],
            dc \in [1..l[2] -> CustomizeFile],
            mj \in [1..l[3] -> CustomizeFile]} :
        l \in ListLengths}

None == [type |-> "none"]

(***************************************************************************)
(* Errors.  An error value carries its class, its message and the attempt  *)
(* and stage that raised it, so that "the same error" can be told from a   *)
(* new one.                                                                *)
(***************************************************************************)
Error(class, message, n, stage) ==
    [class |-> class, message |-> message, attempt |-> n, stage |-> stage]

NoError == Error("none", "", 0, "")

AuthenticationError(n, stage) == Error("AuthenticationError", "401", n, stage)

OtherError(n, stage) == Error("Error", "failure", n, stage)

m(key) == key

RemoteErrors(n, stage) == {AuthenticationError(n, stage), OtherError(n, stage)}

Event(op, n, arg) == [op |-> op, attempt |-> n, arg |-> arg]

(***************************************************************************)
(* Paths.                                                                  *)
(***************************************************************************)
RECURSIVE Join(_)
Join(parts) ==
    IF Len(parts) = 1 THEN parts[1]
    ELSE Join(SubSeq(parts, 1, Len(parts) - 1)) \o sep \o parts[Len(parts)]

\* mkdirp.sync: the directory and every missing ancestor
MkdirpSync(parts) == {Join(SubSeq(parts, 1, i)) : i \in 1..Len(parts)}

\* the directories of a destination an earlier import has filled
ExistingTree(destination) ==
    UNION {MkdirpSync(<<destination, "desktop", "js">>),
           MkdirpSync(<<destination, "desktop", "css">>),
           MkdirpSync(<<destination, "mobile", "js">>)}

Init ==
    /\ pc = "call"
    /\ appId \in AppIds
    /\ status = [retryCount |-> 0]
    /\ retryCount = status.retryCount
    /\ attempt = 0
    /\ e = NoError
    /\ fetched = None
    /\ resp = None
    /\ result = [state |-> "pending", error |-> NoError]
    /\ failures = <<>>
    /\ trace = <<>>
    /\ dirs \in {{}, {destDir}, ExistingTree(destDir)}
    /\ files = <<>>
    /\ manifestWrites = {}
    /\ downloads = {}
    /\ assetWrites = {}
    /\ uncaught = {}
    /\ crashed = FALSE
    /\ runs = <<>>

(***************************************************************************)
(* Manifest Writer: the pure part of exportAsManifestFile.                 *)
(***************************************************************************)
\* toNameOrUrl recording the bare file name of an uploaded file
toNameOrUrlBareName(dir, f) ==
    IF f.type = "FILE" THEN f.file.name ELSE f.url

toNameOrUrl(dir, f) ==
    IF f.type = "FILE" THEN dir \o sep \o f.file.name ELSE f.url

\* list.map(toNameOrUrl(dir))
map(list, dir) == [i \in 1..Len(list) |-> toNameOrUrl(dir, list[i])]

CustomizeManifest(app, destRootDir, r) ==
    [app     |-> app,
     scope   |-> r.scope,
     desktop |-> [js  |-> map(r.desktop.js, Join(<<destRootDir, "desktop", "js">>)),
                  css |-> map(r.desktop.css, Join(<<destRootDir, "desktop", "css">>))],
     mobile  |-> [js  |-> map(r.mobile.js, Join(<<destRootDir, "mobile", "js">>))]]

\* JSON.stringify(customizeJson, null, 4): the members in the order of the
\* object literal, nested objects as nested member lists
JSONstringify(json) ==
    <<"{", <<"app", json.app>>, <<"scope", json.scope>>,
      <<"desktop", <<"{", <<"js", json.desktop.js>>,
                          <<"css", json.desktop.css>>, "}">> >>,
      <<"mobile", <<"{", <<"js", json.mobile.js>>, "}">> >>, "}">>

ManifestPath(destRootDir) == destRootDir \o sep \o "customize-manifest.json"

(***************************************************************************)
(* Asset Downloader: the requests made by the three forEach loops.         *)
(***************************************************************************)
\* downloadAndWriteFile without the early return for an URL
downloadAndWriteFileAnyType(dir, f) ==
    IF f.type = "URL"
    THEN <<[fileKey |-> f.url, dir |-> dir, name |-> f.url]>>
    ELSE <<[fileKey |-> f.file.fileKey, dir |-> dir, name |-> f.file.name]>>

\* downloadAndWriteFile(client, dir)(f): nothing for an URL, one request
\* for a FILE
downloadAndWriteFile(dir, f) ==
    IF f.type = "URL" THEN <<>>
    ELSE <<[fileKey |-> f.file.fileKey, dir |-> dir, name |-> f.file.name]>>

RECURSIVE forEach(_, _)
forEach(list, dir) ==
    IF list = <<>> THEN <<>>
    ELSE downloadAndWriteFile(dir, Head(list)) \o forEach(Tail(list), dir)

\* DownloadRequests with the style sheets sent to the directory of the scripts
DownloadRequestsCssAmongJs(destination, r) ==
    forEach(r.desktop.js, Join(<<destination, "desktop", "js">>))
        \o forEach(r.desktop.css, Join(<<destination, "desktop", "js">>))
        \o forEach(r.mobile.js, Join(<<destination, "mobile", "js">>))

DownloadRequests(destination, r) ==
    forEach(r.desktop.js, Join(<<destination, "desktop", "js">>))
        \o forEach(r.desktop.css, Join(<<destination, "desktop", "css">>))
        \o forEach(r.mobile.js, Join(<<destination, "mobile", "js">>))

\* DownloadDirs without the directory of the mobile scripts
DownloadDirsDesktopOnly(destination) ==
    << <<destination, "desktop", "js">>,
       <<destination, "desktop", "css">> >>

DownloadDirs(destination) ==
    << <<destination, "desktop", "js">>,
       <<destination, "desktop", "css">>,
       <<destination, "mobile", "js">> >>

\* what the remote file store holds for a file key
Blob(fileKey) == <<"content of", fileKey>>

(***************************************************************************)
(* Settlement of the promise importCustomizeSetting gave to its caller.    *)
(* The outer invocations of a retry chain await the inner one (line 74),   *)
(* so the settlement of the innermost invocation is the caller's.          *)
(***************************************************************************)
\* Resolved with the promise left pending until the downloads are over
ResolvedAfterDownloads ==
    /\ result' = result
    /\ pc' = "settled"

Resolved ==
    /\ result' = [state |-> "resolved", error |-> NoError]
    /\ pc' = "settled"

Rejected(err) ==
    /\ result' = [state |-> "rejected", error |-> err]
    /\ pc' = "settled"

Failed(stage, err) ==
    failures' = Append(failures, [attempt |-> attempt, stage |-> stage, error |-> err])

\* A rejection of the chain as it would be handled were the chain awaited
\* inside `try`: the error enters `catch (e)`
ChainRejectedCaught(stage, err) ==
    /\ Failed(stage, err)
    /\ e' = err
    /\ pc' = "catch"
    /\ UNCHANGED <<retryCount, result>>

\* A rejection of the chain `appCustomize.then(..).then(..).catch(e => { throw e })`.
\* The chain is returned, not awaited, inside `try`: its rejection settles the
\* promise of importCustomizeSetting and never enters `catch (e)`.
ChainRejected(stage, err) ==
    /\ Failed(stage, err)
    /\ Rejected(err)
    /\ UNCHANGED <<retryCount, e>>

Running == ~crashed

\* no microtask of the chain is runnable: I/O callbacks may be delivered
Parked == Running /\ pc \in {"fetching", "wait", "settled"}

(***************************************************************************)
(* Import Orchestrator.                                                    *)
(***************************************************************************)
\* line 55: kintoneApiClient.getAppCustomize(appId) throws synchronously
GetAppCustomizeThrows ==
    /\ Running /\ pc = "call"
    /\ attempt' = attempt + 1
    /\ trace' = Append(trace, Event("getAppCustomize", attempt', appId))
    /\ \E err \in RemoteErrors(attempt', "fetch") :
          /\ e' = err
          /\ failures' = Append(failures,
                [attempt |-> attempt', stage |-> "fetch", error |-> err])
    /\ pc' = "catch"
    /\ UNCHANGED <<runs, appId, status, retryCount, fetched, resp, result, dirs, files,
                   manifestWrites, downloads, assetWrites, uncaught, crashed>>

\* line 55: kintoneApiClient.getAppCustomize(appId) returns a promise
GetAppCustomizeReturns ==
    /\ Running /\ pc = "call"
    /\ attempt' = attempt + 1
    /\ trace' = Append(trace, Event("getAppCustomize", attempt', appId))
    /\ pc' = "fetching"
    /\ UNCHANGED <<runs, appId, status, retryCount, e, fetched, resp, result, failures,
                   dirs, files, manifestWrites, downloads, assetWrites, uncaught,
                   crashed>>

\* GetAppCustomizeFulfilled handing the first .then another value than the
\* one the promise was fulfilled with
GetAppCustomizeFulfilledOtherValue ==
    /\ Running /\ pc = "fetching"
    /\ \E c \in RemoteConfigs :
          /\ fetched' = c
          /\ resp' = [c EXCEPT !.desktop.js = <<>>, !.scope = "NONE"]
          /\ trace' = Append(trace, Event("getAppCustomize fulfilled", attempt, c))
    /\ pc' = "export"
    /\ UNCHANGED <<runs, appId, status, retryCount, attempt, e, result, failures,
                   dirs, files, manifestWrites, downloads, assetWrites, uncaught,
                   crashed>>

\* the promise of getAppCustomize is fulfilled: the first .then runs next
GetAppCustomizeFulfilled ==
    /\ Running /\ pc = "fetching"
    /\ \E c \in RemoteConfigs :
          /\ runs # <<>> => c = fetched
          /\ fetched' = c
          /\ resp' = c
          /\ trace' = Append(trace, Event("getAppCustomize fulfilled", attempt, c))
    /\ pc' = "export"
    /\ UNCHANGED <<runs, appId, status, retryCount, attempt, e, result, failures,
                   dirs, files, manifestWrites, downloads, assetWrites, uncaught,
                   crashed>>

\* the promise of getAppCustomize is rejected: both .then are skipped
GetAppCustomizeRejected ==
    /\ Running /\ pc = "fetching"
    /\ \E err \in RemoteErrors(attempt, "fetch") :
          /\ ChainRejected("fetch", err)
          /\ trace' = Append(trace, Event("getAppCustomize rejected", attempt, err.class))
    /\ UNCHANGED <<runs, appId, status, attempt, fetched, resp, dirs, files,
                   manifestWrites, downloads, assetWrites, uncaught, crashed>>

\* line 127: `return resp`
exportReturn(r) == r

\* lines 57-59 and 86-128
exportAsManifestFile ==
    /\ Running /\ pc = "export"
    /\ LET customizeJson == CustomizeManifest(appId, destDir, resp)
           called == Append(trace, Event("exportAsManifestFile", attempt, resp))
       IN  \/ \* mkdirp.sync(destRootDir) throws
              /\ destDir \notin dirs
              /\ ChainRejected("write", OtherError(attempt, "mkdirp"))
              /\ trace' = called
              /\ UNCHANGED <<resp, dirs, manifestWrites>>
           \/ /\ dirs' = IF destDir \notin dirs
                         THEN dirs \cup MkdirpSync(<<destDir>>) ELSE dirs
              /\ manifestWrites' = manifestWrites \cup
                    {[path    |-> ManifestPath(destDir),
                      dir     |-> destDir,
                      data    |-> JSONstringify(customizeJson),
                      created |-> destDir \notin dirs,  \* line 116 ran
                      attempt |-> attempt]}
              /\ resp' = exportReturn(resp)
              /\ trace' = Append(called, Event("exportAsManifestFile returned", attempt, resp'))
              /\ pc' = "download"
              /\ UNCHANGED <<retryCount, e, result, failures>>
    /\ UNCHANGED <<runs, appId, status, attempt, fetched, files, downloads, assetWrites,
                   uncaught, crashed>>

\* lines 60-65 and 130-155
downloadCustomizeFiles ==
    /\ Running /\ pc = "download"
    /\ LET called == Append(trace, Event("downloadCustomizeFiles", attempt, resp))
           paths == DownloadDirs(destDir)
           requests == DownloadRequests(destDir, resp)
       IN  \/ \* the j-th mkdirp.sync throws (it has a directory to create)
              \E j \in 1..Len(paths) :
                 /\ Join(paths[j]) \notin dirs
                 /\ dirs' = dirs \cup UNION {MkdirpSync(paths[i]) : i \in 1..(j - 1)}
                 /\ ChainRejected("download", OtherError(attempt, "mkdirp"))
                 /\ trace' = called
                 /\ UNCHANGED downloads
           \/ /\ dirs' = dirs \cup UNION {MkdirpSync(paths[i]) : i \in 1..Len(paths)}
              /\ downloads' = downloads \cup
                    {[id      |-> i,
                      attempt |-> attempt,
                      fileKey |-> requests[i].fileKey,
                      dir     |-> requests[i].dir,
                      name    |-> requests[i].name] : i \in 1..Len(requests)}
              /\ trace' = called
                    \o <<Event("download stage", attempt, resp)>>
                    \o [i \in 1..Len(requests) |->
                           Event("downloadFile", attempt, requests[i].fileKey)]
              /\ Resolved
              /\ UNCHANGED <<retryCount, e, failures>>
    /\ UNCHANGED <<runs, appId, status, attempt, fetched, resp, files, manifestWrites,
                   assetWrites, uncaught, crashed>>

\* CatchBlock with the last error wrapped in a new Error when the budget is
\* exhausted
CatchBlockWrapsLastError ==
    /\ Running /\ pc = "catch"
    /\ LET isAuthenticationError == e.class = "AuthenticationError"
       IN  /\ retryCount' = retryCount + 1
           /\ IF isAuthenticationError
              THEN /\ Rejected(Error("Error", m("E_Authentication"), attempt, "catch"))
                   /\ trace' = trace
              ELSE IF retryCount' < MAX_RETRY_COUNT
              THEN /\ pc' = "wait"
                   /\ trace' = Append(trace, Event("wait", attempt, "1000"))
                   /\ UNCHANGED result
              ELSE /\ Rejected(Error("Error", e.message, attempt, "catch"))
                   /\ trace' = trace
    /\ UNCHANGED <<runs, appId, status, attempt, e, fetched, resp, failures, dirs, files,
                   manifestWrites, downloads, assetWrites, uncaught, crashed>>

\* CatchBlock retrying every failure that is not an authentication failure,
\* without comparing retryCount with MAX_RETRY_COUNT
CatchBlockWithoutBudget ==
    /\ Running /\ pc = "catch"
    /\ LET isAuthenticationError == e.class = "AuthenticationError"
       IN  /\ retryCount' = retryCount + 1
           /\ IF isAuthenticationError
              THEN /\ Rejected(Error("Error", m("E_Authentication"), attempt, "catch"))
                   /\ trace' = trace
              ELSE /\ pc' = "wait"
                   /\ trace' = Append(trace, Event("wait", attempt, "1000"))
                   /\ UNCHANGED result
    /\ UNCHANGED <<runs, appId, status, attempt, e, fetched, resp, failures, dirs, files,
                   manifestWrites, downloads, assetWrites, uncaught, crashed>>

\* lines 66-71 and 80-82: the handler of a synchronous exception
CatchBlock ==
    /\ Running /\ pc = "catch"
    /\ LET isAuthenticationError == e.class = "AuthenticationError"
       IN  /\ retryCount' = retryCount + 1
           /\ IF isAuthenticationError
              THEN /\ Rejected(Error("Error", m("E_Authentication"), attempt, "catch"))
                   /\ trace' = trace
              ELSE IF retryCount' < MAX_RETRY_COUNT
              THEN /\ pc' = "wait"
                   /\ trace' = Append(trace, Event("wait", attempt, "1000"))
                   /\ UNCHANGED result
              ELSE /\ Rejected(e)
                   /\ trace' = trace
    /\ UNCHANGED <<runs, appId, status, attempt, e, fetched, resp, failures, dirs, files,
                   manifestWrites, downloads, assetWrites, uncaught, crashed>>

\* Retry printing the notice before the wait instead of after it
RetryNoticeBeforeWait ==
    /\ Running /\ pc = "wait"
    /\ trace' = SubSeq(trace, 1, Len(trace) - 1)
                    \o <<Event("console.log", attempt, m("E_Retry")),
                         trace[Len(trace)]>>
    /\ pc' = "call"
    /\ UNCHANGED <<runs, appId, status, retryCount, attempt, e, fetched, resp, result,
                   failures, dirs, files, manifestWrites, downloads, assetWrites,
                   uncaught, crashed>>

\* lines 72-79: the timer fires, the notice is printed, the recursive call starts
Retry ==
    /\ Running /\ pc = "wait"
    /\ trace' = Append(trace, Event("console.log", attempt, m("E_Retry")))
    /\ pc' = "call"
    /\ UNCHANGED <<runs, appId, status, retryCount, attempt, e, fetched, resp, result,
                   failures, dirs, files, manifestWrites, downloads, assetWrites,
                   uncaught, crashed>>

(***************************************************************************)
(* I/O events.                                                             *)
(***************************************************************************)
Put(f, path, data) ==
    [p \in DOMAIN f \cup {path} |-> IF p = path THEN data ELSE f[p]]

\* lines 118-126: the callback of the manifest's fs.writeFile
ManifestWriteCallback ==
    /\ Parked
    /\ \E w \in manifestWrites :
          /\ manifestWrites' = manifestWrites \ {w}
          /\ \/ /\ w.dir \in dirs
                /\ files' = Put(files, w.path, w.data)
                /\ UNCHANGED <<uncaught, crashed>>
             \/ \* err: `throw err` inside the callback is an uncaught exception
                /\ uncaught' = uncaught \cup {OtherError(w.attempt, "manifest writeFile")}
                /\ crashed' = TRUE
                /\ UNCHANGED files
    /\ UNCHANGED <<runs, pc, appId, status, retryCount, attempt, e, fetched, resp, result,
                   failures, trace, dirs, downloads, assetWrites>>

\* line 165: the promise of downloadFile is fulfilled, fs.writeFile is called
DownloadFileFulfilled ==
    /\ Parked
    /\ \E d \in downloads :
          /\ downloads' = downloads \ {d}
          /\ assetWrites' = assetWrites \cup
                {[id      |-> d.id,
                  attempt |-> d.attempt,
                  fileKey |-> d.fileKey,
                  path    |-> d.dir \o sep \o d.name,
                  dir     |-> d.dir,
                  data    |-> Blob(d.fileKey)]}
    /\ UNCHANGED <<runs, pc, appId, status, retryCount, attempt, e, fetched, resp, result,
                   failures, trace, dirs, files, manifestWrites, uncaught, crashed>>

\* DownloadFileRejected with the rejection handed to the caller of
\* importCustomizeSetting
DownloadFileRejectedToCaller ==
    /\ Parked
    /\ \E d \in downloads :
          /\ downloads' = downloads \ {d}
          /\ \E err \in RemoteErrors(d.attempt, "downloadFile") :
                /\ uncaught' = uncaught \cup {err}
                /\ result' = [state |-> "rejected", error |-> err]
    /\ crashed' \in BOOLEAN
    /\ UNCHANGED <<runs, pc, appId, status, retryCount, attempt, e, fetched, resp,
                   failures, trace, dirs, files, manifestWrites, assetWrites>>

\* line 165: the promise of downloadFile is rejected; nothing handles it.
\* An unhandled rejection is a warning or the end of the process,
\* depending on the runtime.
DownloadFileRejected ==
    /\ Parked
    /\ \E d \in downloads :
          /\ downloads' = downloads \ {d}
          /\ \E err \in RemoteErrors(d.attempt, "downloadFile") :
                uncaught' = uncaught \cup {err}
    /\ crashed' \in BOOLEAN
    /\ UNCHANGED <<runs, pc, appId, status, retryCount, attempt, e, fetched, resp, result,
                   failures, trace, dirs, files, manifestWrites, assetWrites>>

\* lines 166-170: the callback of an asset's fs.writeFile
AssetWriteCallback ==
    /\ Parked
    /\ \E w \in assetWrites :
          /\ assetWrites' = assetWrites \ {w}
          /\ \/ /\ w.dir \in dirs
                /\ files' = Put(files, w.path, w.data)
                /\ UNCHANGED <<uncaught, crashed>>
             \/ /\ uncaught' = uncaught \cup {OtherError(w.attempt, "asset writeFile")}
                /\ crashed' = TRUE
                /\ UNCHANGED files
    /\ UNCHANGED <<runs, pc, appId, status, retryCount, attempt, e, fetched, resp, result,
                   failures, trace, dirs, manifestWrites, downloads>>

\* nothing is in flight
Quiescent == manifestWrites = {} /\ downloads = {} /\ assetWrites = {}

\* lines 187-199: runImport is called again, with the same arguments, after
\* an import that succeeded and whose writes have all finished; the remote
\* configuration is the one the first import fetched
RunAgain ==
    /\ Running /\ pc = "settled"
    /\ result.state = "resolved" /\ Quiescent /\ uncaught = {}
    /\ runs = <<>>
    /\ runs' = Append(runs, files)
    /\ pc' = "call"
    /\ retryCount' = status.retryCount
    /\ attempt' = 0
    /\ e' = NoError
    /\ resp' = None
    /\ result' = [state |-> "pending", error |-> NoError]
    /\ failures' = <<>>
    /\ trace' = <<>>
    /\ UNCHANGED <<appId, status, fetched, dirs, files, manifestWrites, downloads,
                   assetWrites, uncaught, crashed>>

Next ==
    \/ GetAppCustomizeThrows
    \/ GetAppCustomizeReturns
    \/ GetAppCustomizeFulfilled
    \/ GetAppCustomizeRejected
    \/ exportAsManifestFile
    \/ downloadCustomizeFiles
    \/ CatchBlock
    \/ Retry
    \/ ManifestWriteCallback
    \/ DownloadFileFulfilled
    \/ DownloadFileRejected
    \/ AssetWriteCallback

Spec == Init /\ [][Next]_vars

\* two imports in succession
NextTwice == Next \/ RunAgain

SpecTwice == Init /\ [][NextTwice]_vars

\* the steps of importCustomizeSetting: microtasks, the settlement of
\* getAppCustomize and the timer of wait(1000)
Orchestrator ==
    \/ GetAppCustomizeThrows
    \/ GetAppCustomizeReturns
    \/ GetAppCustomizeFulfilled
    \/ GetAppCustomizeRejected
    \/ exportAsManifestFile
    \/ downloadCustomizeFiles
    \/ CatchBlock
    \/ Retry

\* every remote call and every wait eventually completes
FairSpec == Spec /\ WF_vars(Orchestrator)

(***************************************************************************)
(* Properties.                                                             *)
(***************************************************************************)
IsAuth(err) == err.class = "AuthenticationError"

AuthFailures == {i \in DOMAIN failures : IsAuth(failures[i].error)}

NonAuthFailures == {i \in DOMAIN failures : ~IsAuth(failures[i].error)}

LastFailure == failures[Len(failures)]

EventsOf(op) == {j \in DOMAIN trace : trace[j].op = op}

Localized(err) == err.class = "Error" /\ err.message = m("E_Authentication")

\* C1: importCustomizeSetting, started with retryCount = 0, fails to its
\* caller only when an attempt failed with an authentication failure or
\* MAX_RETRY_COUNT attempts have failed with non-authentication failures;
\* a non-authentication failure within the budget is followed by a further
\* attempt.
C1_FailsOnlyOnAuthOrExhaustedBudget ==
    result.state = "rejected" =>
        \/ AuthFailures # {}
        \/ Cardinality(NonAuthFailures) = MAX_RETRY_COUNT

\* C2: after an authentication failure no further attempt, wait or retry
\* notice occurs, and the error raised to the caller is the localized
\* authentication message, not the AuthenticationError.
C2_AuthFailureRaisesLocalizedMessage ==
    \A i \in AuthFailures :
        /\ attempt = failures[i].attempt
        /\ \A j \in EventsOf("wait") \cup EventsOf("console.log") :
              trace[j].attempt < failures[i].attempt
        /\ pc = "settled" =>
              result.state = "rejected" /\ Localized(result.error)

\* C3: when every attempt fails with a non-authentication failure, exactly
\* MAX_RETRY_COUNT attempts are made before the failure is propagated; never
\* more than MAX_RETRY_COUNT attempts are made.
C3_ExactlyMaxAttemptsWhenAllFail ==
    /\ attempt <= MAX_RETRY_COUNT
    /\ (result.state = "rejected" /\ AuthFailures = {} /\ Len(failures) = attempt)
          => attempt = MAX_RETRY_COUNT

\* C4: when MAX_RETRY_COUNT attempts have failed with non-authentication
\* failures, the error raised to the caller is the error of the last failed
\* attempt itself: same class, message and origin.
C4_ExhaustedBudgetRaisesLastError ==
    (result.state = "rejected" /\ Cardinality(NonAuthFailures) = MAX_RETRY_COUNT)
        => result.error = LastFailure.error

\* the handler gave up after MAX_RETRY_COUNT synchronous failures
C4_Witness ==
    /\ result.state = "rejected"
    /\ Cardinality(NonAuthFailures) = MAX_RETRY_COUNT
    /\ retryCount = MAX_RETRY_COUNT
    /\ result.error = OtherError(MAX_RETRY_COUNT, "fetch")

\* C5: a non-authentication error raised by exportAsManifestFile or by
\* downloadCustomizeFiles is handled like a fetch failure: retryCount is
\* incremented and the error reaches the caller only once the budget of
\* MAX_RETRY_COUNT is exhausted.
C5_StageErrorIsRetried ==
    (result.state = "rejected" /\ failures # <<>>
        /\ LastFailure.stage \in {"write", "download"})
        => /\ retryCount = Len(failures)
           /\ retryCount = MAX_RETRY_COUNT

WriteErrors(errs) == {err \in errs : err.stage = "manifest writeFile"}

\* C6: a failed write of customize-manifest.json reaches the orchestrator:
\* the call does not succeed, the error is a failure of the attempt, and it is
\* not raised outside of the orchestrator.
C6_ManifestWriteFailureReachesOrchestrator ==
    /\ WriteErrors(uncaught) = {}
    /\ \A err \in WriteErrors({failures[i].error : i \in DOMAIN failures}) :
          result.state # "resolved"

WrittenManifest == JSONstringify(CustomizeManifest(appId, destDir, fetched))

\* C8: when the Asset Downloader starts, and when importCustomizeSetting has
\* succeeded, customize-manifest.json has been written with the manifest of
\* the fetched configuration.
C8_ManifestWrittenBeforeDownload ==
    (EventsOf("downloadCustomizeFiles") # {} \/ result.state = "resolved")
        => /\ ManifestPath(destDir) \in DOMAIN files
           /\ files[ManifestPath(destDir)] = WrittenManifest

IsFile(f) == f.type = "FILE"

Entries(r) == r.desktop.js \o r.desktop.css \o r.mobile.js

FileKeys(r) ==
    LET fs == SelectSeq(Entries(r), IsFile)
    IN  [i \in 1..Len(fs) |-> fs[i].file.fileKey]

RequestedKeys(n) ==
    LET inAttempt(ev) == ev.op = "downloadFile" /\ ev.attempt = n
        evs == SelectSeq(trace, inAttempt)
    IN  [i \in 1..Len(evs) |-> evs[i].arg]

TargetsIn(list, dir) ==
    {<<list[i].file.fileKey, dir \o list[i].file.name>> :
        i \in {i \in DOMAIN list : IsFile(list[i])}}

\* <<fileKey, path>> of every FILE entry of a configuration
FileTargets(r) ==
    TargetsIn(r.desktop.js, "dest/desktop/js/")
        \cup TargetsIn(r.desktop.css, "dest/desktop/css/")
        \cup TargetsIn(r.mobile.js, "dest/mobile/js/")

\* C9: downloadFile is requested exactly once per FILE entry of the fetched
\* configuration, with its fileKey, in every attempt that reaches the
\* download loops (line 146), and never otherwise; no request and no file
\* write is made for an URL entry; with no FILE entry nothing is downloaded.
C9_DownloadsExactlyTheFileEntries ==
    /\ \A j \in EventsOf("download stage") :
          RequestedKeys(trace[j].attempt) = FileKeys(trace[j].arg)
    /\ \A j \in EventsOf("downloadFile") :
          \E k \in EventsOf("download stage") :
              /\ k < j
              /\ trace[k].attempt = trace[j].attempt
              /\ trace[k].arg = fetched
    /\ \A d \in downloads : <<d.fileKey, d.dir \o sep \o d.name>> \in FileTargets(fetched)
    /\ \A w \in assetWrites : <<w.fileKey, w.path>> \in FileTargets(fetched)
    /\ \A p \in DOMAIN files :
          \/ p = "dest/customize-manifest.json"
          \/ \E t \in FileTargets(fetched) : p = t[2] /\ files[p] = Blob(t[1])
    /\ (EventsOf("download stage") # {} /\ FileKeys(fetched) = <<>>)
          => /\ EventsOf("downloadFile") = {}
             /\ downloads = {} /\ assetWrites = {}
             /\ DOMAIN files \subseteq {"dest/customize-manifest.json"}

\* a configuration with an URL entry and a FILE entry: the file was
\* requested and written, nothing else was
C9_Witness ==
    /\ EventsOf("download stage") # {}
    /\ \E i \in DOMAIN Entries(fetched) : ~IsFile(Entries(fetched)[i])
    /\ Len(FileKeys(fetched)) = 1
    /\ Cardinality(EventsOf("downloadFile")) = 1
    /\ Cardinality(DOMAIN files \ {"dest/customize-manifest.json"}) = 1

\* the members of the manifest text, in the order JSON.stringify wrote them
ManifestApp(data) == data[2][2]

ManifestScope(data) == data[3][2]

ManifestDesktopJs(data) == data[4][2][2][2]

ManifestDesktopCss(data) == data[4][2][3][2]

ManifestMobileJs(data) == data[5][2][2][2]

MirrorsList(out, list, dir) ==
    /\ Len(out) = Len(list)
    /\ \A i \in DOMAIN list :
          out[i] = IF list[i].type = "URL" THEN list[i].url
                   ELSE dir \o list[i].file.name

MirrorsConfig(data, app, r) ==
    /\ ManifestApp(data) = app
    /\ ManifestScope(data) = r.scope
    /\ MirrorsList(ManifestDesktopJs(data), r.desktop.js, "dest/desktop/js/")
    /\ MirrorsList(ManifestDesktopCss(data), r.desktop.css, "dest/desktop/css/")
    /\ MirrorsList(ManifestMobileJs(data), r.mobile.js, "dest/mobile/js/")

\* C10: the manifest exportAsManifestFile produces has the app id of the
\* call, the remote scope, and three lists of the length and order of the
\* remote lists, URL entries verbatim and FILE entries as
\* destRootDir/<category>/<subcategory>/<name>; exportAsManifestFile returns
\* its input unchanged.
C10_ManifestMirrorsRemoteConfig ==
    /\ \A w \in manifestWrites : MirrorsConfig(w.data, appId, fetched)
    /\ "dest/customize-manifest.json" \in DOMAIN files
          => MirrorsConfig(files["dest/customize-manifest.json"], appId, fetched)
    /\ \A j \in EventsOf("exportAsManifestFile returned") :
          /\ trace[j - 1].op = "exportAsManifestFile"
          /\ trace[j].arg = trace[j - 1].arg

\* a manifest of a configuration with an URL entry and a FILE entry is on disk
C10_Witness ==
    /\ "dest/customize-manifest.json" \in DOMAIN files
    /\ appId = "7"
    /\ \E i \in DOMAIN fetched.desktop.css : IsFile(fetched.desktop.css[i])
    /\ \E i \in DOMAIN fetched.mobile.js : ~IsFile(fetched.mobile.js[i])

\* the texts of customize-manifest.json, being written or on disk
ManifestTexts ==
    {w.data : w \in manifestWrites}
        \cup {files[p] : p \in {p \in DOMAIN files : p = "dest/customize-manifest.json"}}

ManifestEntries(data) ==
    ManifestDesktopJs(data) \o ManifestDesktopCss(data) \o ManifestMobileJs(data)

\* the position, among all entries, of the k-th FILE entry of a configuration
FilePosition(r, k) ==
    CHOOSE p \in DOMAIN Entries(r) :
        /\ IsFile(Entries(r)[p])
        /\ Cardinality({q \in 1..p : IsFile(Entries(r)[q])}) = k

\* C11: for every FILE entry of the fetched configuration, in each of the
\* three categories, the path the manifest records for it is the path the
\* content downloaded for its fileKey is written to.
C11_ManifestPathIsDownloadPath ==
    /\ \A data \in ManifestTexts :
          /\ \A d \in downloads :
                /\ ManifestEntries(data)[FilePosition(fetched, d.id)] = d.dir \o sep \o d.name
                /\ Entries(fetched)[FilePosition(fetched, d.id)].file.fileKey = d.fileKey
          /\ \A w \in assetWrites :
                /\ ManifestEntries(data)[FilePosition(fetched, w.id)] = w.path
                /\ Entries(fetched)[FilePosition(fetched, w.id)].file.fileKey = w.fileKey
                /\ w.data = Blob(w.fileKey)
    /\ \A p \in DOMAIN files \ {"dest/customize-manifest.json"} :
          \E k \in 1..Len(FileKeys(fetched)) :
              /\ files[p] = Blob(FileKeys(fetched)[k])
              /\ \A data \in ManifestTexts :
                    ManifestEntries(data)[FilePosition(fetched, k)] = p

\* the manifest and the file of a style sheet and of a mobile script are on disk
C11_Witness ==
    /\ "dest/customize-manifest.json" \in DOMAIN files
    /\ "dest/desktop/css/a.js" \in DOMAIN files
    /\ "dest/mobile/js/a.js" \in DOMAIN files
    /\ files["dest/desktop/css/a.js"] # files["dest/mobile/js/a.js"]

\* the second import has succeeded and every write it started has finished
SecondImportDone ==
    /\ runs # <<>>
    /\ pc = "settled" /\ result.state = "resolved"
    /\ Quiescent /\ uncaught = {} /\ ~crashed

\* C12: a second import of the unchanged remote configuration into the same
\* directory, once all its writes have finished, leaves the manifest file and
\* every asset file with the content the first import left.
C12_SecondImportLeavesFilesUnchanged ==
    SecondImportDone => files = runs[1]

InFlight == manifestWrites \cup downloads \cup assetWrites

\* the directory a written file lies in
Dirname(p) ==
    CHOOSE d \in {"dest", "dest/desktop/js", "dest/desktop/css", "dest/mobile/js"} :
        \E n \in {"customize-manifest.json", "a.js"} : p = d \o "/" \o n

\* C13: the destination directory exists before the manifest write is issued
\* and desktop/js, desktop/css and mobile/js exist before the first
\* downloadFile request; no write is issued into a directory that does not
\* exist; mkdirp.sync fails only when it has a directory to create.
C13_DirectoriesExistBeforeUse ==
    /\ \A w \in InFlight : w.dir \in dirs
    /\ manifestWrites # {} => "dest" \in dirs
    /\ EventsOf("download stage") # {} =>
          {"dest", "dest/desktop", "dest/desktop/js", "dest/desktop/css",
           "dest/mobile", "dest/mobile/js"} \subseteq dirs
    /\ \A p \in DOMAIN files : Dirname(p) \in dirs
    /\ \A i \in DOMAIN failures :
          /\ failures[i].stage = "write" => "dest" \notin dirs
          /\ failures[i].stage = "download" =>
                ~({"dest/desktop/js", "dest/desktop/css", "dest/mobile/js"} \subseteq dirs)

\* the destination did not exist: the manifest and a mobile script are being
\* written into the directories the import created
C13_Witness ==
    /\ \E w \in manifestWrites : w.created
    /\ \E w \in assetWrites : w.dir = "dest/mobile/js"

DownloadErrors == {err \in uncaught : err.stage \in {"downloadFile", "asset writeFile"}}

\* C14: a rejected downloadFile or a failed asset write is never caught by
\* the orchestrator: it causes no further getAppCustomize call, it is not the
\* failure of importCustomizeSetting, which has succeeded by then, and it is
\* an unhandled error only.
C14_DownloadFailureIsUnhandled ==
    /\ \A err \in DownloadErrors :
          /\ pc = "settled" /\ result.state = "resolved"
          /\ attempt = err.attempt
          /\ \A j \in EventsOf("getAppCustomize") : trace[j].attempt <= err.attempt
          /\ \A j \in EventsOf("wait") \cup EventsOf("console.log") :
                trace[j].attempt < err.attempt
    /\ \A i \in DOMAIN failures :
          failures[i].error.stage \notin {"downloadFile", "asset writeFile"}
    /\ result.error.stage \notin {"downloadFile", "asset writeFile"}
    /\ e.stage \notin {"downloadFile", "asset writeFile"}

\* a downloadFile request was rejected and an asset write failed
C14_Witness ==
    /\ \E err \in uncaught : err.stage = "downloadFile"
    /\ \E err \in uncaught : err.stage = "asset writeFile"

AssetFiles == DOMAIN files \ {"dest/customize-manifest.json"}

\* C15: the return of downloadCustomizeFiles does not wait for the
\* downloads: importCustomizeSetting has resolved before any downloadFile
\* request settles and before any asset file is written, so states with a
\* successful import and a request or an asset write in flight are reachable.
C15_ImportResolvesBeforeDownloadsFinish ==
    /\ (assetWrites # {} \/ AssetFiles # {} \/ DownloadErrors # {})
          => result.state = "resolved"
    /\ \A j \in EventsOf("downloadFile") : result.state = "resolved"

\* the import has succeeded; one request and one asset write are in flight
\* and no asset file is written yet
C15_Witness ==
    /\ result.state = "resolved"
    /\ \E j \in EventsOf("downloadCustomizeFiles") : trace[j].attempt = attempt
    /\ downloads # {}
    /\ assetWrites # {}
    /\ AssetFiles = {}

\* the import has succeeded, nothing has failed and every write has finished
AllDownloadsDone ==
    /\ pc = "settled" /\ result.state = "resolved"
    /\ Quiescent /\ uncaught = {} /\ ~crashed

\* C16: the download-and-write operations of a run are independent, no two
\* of them writing the same path: whatever the order in which they finish,
\* in the end the file of every FILE entry holds the content downloaded for
\* that entry.
C16_DownloadsAreIndependent ==
    AllDownloadsDone =>
        \A t \in FileTargets(fetched) :
            t[2] \in DOMAIN files /\ files[t[2]] = Blob(t[1])

\* C17: between a retried failed attempt and the getAppCustomize call of the
\* next attempt there is exactly one wait and then exactly one retry notice;
\* a finished execution has made one notice less than attempts; an
\* authentication failure and the last failure cause no wait and no notice.
C17_OneWaitThenOneNoticePerRetry ==
    /\ \A j \in EventsOf("getAppCustomize") :
          trace[j].attempt > 1 =>
              /\ j > 3
              /\ trace[j - 1].op = "console.log"
              /\ trace[j - 1].arg = m("E_Retry")
              /\ trace[j - 2].op = "wait"
              /\ trace[j - 3].op = "getAppCustomize"
              /\ trace[j - 3].attempt = trace[j].attempt - 1
    /\ \A j \in EventsOf("wait") :
          /\ j > 1
          /\ trace[j - 1].op = "getAppCustomize"
          /\ \E i \in NonAuthFailures : failures[i].attempt = trace[j].attempt
    /\ \A j \in EventsOf("console.log") : j > 1 /\ trace[j - 1].op = "wait"
    /\ pc = "settled" =>
          /\ Cardinality(EventsOf("console.log")) = attempt - 1
          /\ Cardinality(EventsOf("wait")) = attempt - 1

\* the third attempt failed as well: two waits and two notices were made
C17_Witness ==
    /\ pc = "settled" /\ result.state = "rejected"
    /\ attempt = MAX_RETRY_COUNT
    /\ Cardinality(EventsOf("console.log")) = 2
    /\ retryCount = MAX_RETRY_COUNT

\* C18: the retryCount of the current attempt equals the number of attempts
\* that have failed so far, whatever stage failed (the increment of line 67
\* is the first statement of the catch block, so the two differ by one only
\* while that block is entered); it never exceeds MAX_RETRY_COUNT and the
\* caller's status object keeps its retryCount of 0.
C18_RetryCountCountsFailedAttempts ==
    /\ status.retryCount = 0
    /\ retryCount <= MAX_RETRY_COUNT
    /\ pc # "catch" => retryCount = Len(failures)
    /\ pc = "catch" => retryCount + 1 = Len(failures)

\* the getAppCustomize call of the current attempt has completed: it threw,
\* or the promise it returned was fulfilled or rejected
FetchCompleted ==
    \/ \E i \in DOMAIN failures :
          failures[i].attempt = attempt /\ failures[i].stage = "fetch"
    \/ \E j \in DOMAIN trace :
          /\ trace[j].attempt = attempt
          /\ trace[j].op \in {"getAppCustomize fulfilled", "getAppCustomize rejected"}

C20_AttemptsDoNotOverlap ==
    /\ \A w \in InFlight : w.attempt = attempt
    /\ pc \in {"call", "fetching", "catch", "wait"} =>
          InFlight = {} /\ DOMAIN files = {}
    /\ \A j \in EventsOf("downloadFile") \cup EventsOf("exportAsManifestFile") :
          \A k \in EventsOf("getAppCustomize") : k > j => trace[k].attempt <= trace[j].attempt

\* a retried import has written its manifest and its downloads are under way
C20_Witness ==
    /\ attempt > 1
    /\ EventsOf("console.log") # {}
    /\ manifestWrites = {}
    /\ "dest/customize-manifest.json" \in DOMAIN files
    /\ downloads # {}
====
